---- MODULE Spec2Model ----
(***************************************************************************)
(* A model of module/MonteCarlo.py: the Die, Game and Analyzer classes.    *)
(*                                                                         *)
(* A call is one action.  Its outcome (the exception it raises, or "ok",   *)
(* and the value it returns) is recorded in the variable `last`.           *)
(* Weights are modelled as integers (1 stands for the float 1.0); a label  *)
(* is an integer; a DataFrame is a record of its column labels, its index  *)
(* and its rows.                                                           *)
(***************************************************************************)
EXTENDS Integers, Sequences, FiniteSets

\* ------------------------------------------------------------------ bounds
\* the largest `rolls` argument tried (the smallest is -1)
MaxRolls == 1
\* the largest number of Die objects constructed and handed to a Game
MaxDice == 2

\* the labels a face can be
Labels == {1, 2}
\* the contents of the faces arguments tried: no face, two distinct faces,
\* one face twice
FacesElems == {<<>>, <<1, 2>>, <<1, 1>>}
\* the new_weight arguments tried: numeric ones, and one that is not numeric
WeightArgs == {[numeric |-> TRUE, v |-> -1], [numeric |-> TRUE, v |-> 0],
               [numeric |-> FALSE, v |-> 0]}
\* the `form` arguments tried
Forms == {"wide", "narrow", "long"}

\* ------------------------------------------------------------- exceptions
OK == "ok"
TypeErrorFaces == "TypeError: Faces must be a numpy array."
ValueErrorDistinct == "ValueError: Faces must be distinct."
AttributeErrorCount == "AttributeError: 'numpy.ndarray' object has no attribute 'count'"
IndexErrorFace == "IndexError: Face not found in die."
TypeErrorWeight == "TypeError: Weight must be a numeric value."
IndexErrorChoices == "IndexError: list index out of range"
ValueErrorTotal == "ValueError: Total of weights must be greater than zero"
ValueErrorDice == "ValueError: All elements must be instances of the Die class."
ValueErrorNoResults == "ValueError: No results available. Please play the game first."
AttributeErrorWide == "AttributeError: 'Game' object has no attribute 'wide_results'"
ValueErrorForm == "ValueError: Invalid form. Choose 'wide' or 'narrow'."
ValueErrorGame == "ValueError: Input must be a Game object."
ValueErrorNoGameResults == "ValueError: No game results available. Please play the game first."
PandasError == "ValueError/TypeError raised inside pandas"

None == [isNone |-> TRUE]

VARIABLES
    pool,       \* the Die objects constructed so far, in construction order
    game,       \* None, or the Game object: [isNone, dice, results]
    analyzer,   \* None, or the Analyzer object: [isNone, game]
    played,     \* None, or the `rolls` of the most recent play that returned
    replayed,   \* whether a play has returned since Analyzer() returned
    last        \* the most recent call: [op, arg, exc, ret]

vars == <<pool, game, analyzer, played, replayed, last>>

\* ------------------------------------------------------------------- Die
\* the arguments tried for Die(faces): a list, a numpy array, and an
\* instance of a subclass of numpy.ndarray that has a list-like count()
FacesArgs ==
    {[kind |-> k, elems |-> e] :
        k \in {"list", "ndarray", "ndarray_with_count"},
        e \in FacesElems}

\* faces.count(face), where the array has such a method
Count(elems, face) == Cardinality({i \in 1..Len(elems) : elems[i] = face})

\* Die.__init__: the exception raised, or OK
Die_init_exc(faces) ==
    IF faces.kind = "list" THEN TypeErrorFaces
    ELSE IF Len(faces.elems) = 0 THEN OK
    ELSE IF faces.kind = "ndarray" THEN AttributeErrorCount
    ELSE IF \E i \in 1..Len(faces.elems) : Count(faces.elems, faces.elems[i]) > 1
         THEN ValueErrorDistinct
    ELSE OK

\* np.ones(len(faces))
Ones(n) == [i \in 1..n |-> 1]

\* the object Die.__init__ leaves behind
Die_init_obj(faces) ==
    [faces |-> faces.elems,
     weights |-> Ones(Len(faces.elems)),
     df |-> Ones(Len(faces.elems))]

\* Die(faces), for the dice the Game will be built from: the model follows at
\* most MaxDice Die objects, all constructed before the Game that holds them
Die_init ==
    /\ game.isNone
    /\ Len(pool) < MaxDice
    /\ \E faces \in FacesArgs :
        LET exc == Die_init_exc(faces) IN
        /\ last' = [op |-> "Die", arg |-> faces, exc |-> exc,
                    ret |-> IF exc = OK THEN Die_init_obj(faces) ELSE None]
        /\ pool' = IF exc = OK THEN Append(pool, Die_init_obj(faces)) ELSE pool
        /\ UNCHANGED <<game, analyzer, played, replayed>>

\* the `face` arguments tried for change_weight: a label, and 3, which no
\* die has
FaceArgs == {1, 3}

\* face in self.faces
HasFace(die, face) == \E i \in 1..Len(die.faces) : die.faces[i] = face

\* Die.change_weight: the exception raised, or OK
change_weight_exc(die, face, new_weight) ==
    IF ~HasFace(die, face) THEN IndexErrorFace
    ELSE IF ~new_weight.numeric THEN TypeErrorWeight
    ELSE OK

\* self.df.loc[face, 'weights'] = new_weight
SetLoc(die, face, v) ==
    [die EXCEPT !.df = [i \in 1..Len(die.df) |->
                            IF die.faces[i] = face THEN v ELSE die.df[i]]]

\* the Die after change_weight(face, new_weight) returned or raised
change_weight_obj(die, face, new_weight) ==
    IF change_weight_exc(die, face, new_weight) = OK
    THEN SetLoc(die, face, new_weight.v)
    ELSE die

change_weight ==
    \E d \in 1..Len(pool), face \in FaceArgs, new_weight \in WeightArgs :
        /\ pool' = [pool EXCEPT ![d] = change_weight_obj(pool[d], face, new_weight)]
        /\ last' = [op |-> "change_weight",
                    arg |-> [faces |-> pool[d].faces, face |-> face,
                             new_weight |-> new_weight],
                    exc |-> change_weight_exc(pool[d], face, new_weight),
                    ret |-> None]
        /\ UNCHANGED <<game, analyzer, played, replayed>>

\* itertools.accumulate(weights)
RECURSIVE Accumulate(_)
Accumulate(w) ==
    IF Len(w) = 0 THEN <<>>
    ELSE LET front == Accumulate(SubSeq(w, 1, Len(w) - 1)) IN
         Append(front, (IF Len(front) = 0 THEN 0 ELSE front[Len(front)]) + w[Len(w)])

\* bisect.bisect_right(a, x, lo, hi), with 0-based lo and hi
RECURSIVE Bisect(_, _, _, _)
Bisect(a, x, lo, hi) ==
    IF lo < hi
    THEN LET mid == (lo + hi) \div 2 IN
         IF x < a[mid + 1] THEN Bisect(a, x, lo, mid) ELSE Bisect(a, x, mid + 1, hi)
    ELSE lo

\* random.choices(population, weights, k=1)[0]: every outcome it can have
\* (CPython 3.9 and later, which reject a total weight that is not positive).
\* random() * total lies in [0, total); against integer cumulative weights
\* only its integer part decides the comparisons of the bisection.
Choices(population, weights) ==
    LET n == Len(population)
        cum_weights == Accumulate(weights)
        total == cum_weights[n]
    IN  IF n = 0 THEN {[exc |-> IndexErrorChoices, val |-> 0]}
        ELSE IF total <= 0 THEN {[exc |-> ValueErrorTotal, val |-> 0]}
        ELSE {[exc |-> OK, val |-> population[Bisect(cum_weights, x, 0, n - 1) + 1]] :
                 x \in 0..(total - 1)}

\* Die.roll(1)[0]
roll(die) == Choices(die.faces, die.df)

\* ------------------------------------------------------------------ Game
\* Game.__init__: the dice argument is the list of the Die objects
\* constructed so far, or that list with something that is no Die added
Game_init_exc(allDice) == IF allDice THEN OK ELSE ValueErrorDice

Game_init_obj(dice) == [isNone |-> FALSE, dice |-> dice, results |-> None]

Game_init ==
    /\ game.isNone
    /\ \E allDice \in BOOLEAN :
        LET exc == Game_init_exc(allDice) IN
        /\ game' = IF exc = OK
                   THEN Game_init_obj([i \in 1..Len(pool) |-> i])
                   ELSE game
        /\ last' = [op |-> "Game", arg |-> allDice, exc |-> exc, ret |-> None]
        /\ UNCHANGED <<pool, analyzer, played, replayed>>

\* pd.DataFrame(results, columns=[f"Die {i}" ...]) with index 1..len, named Roll
DataFrame(rows, ncols) ==
    [isNone |-> FALSE,
     columns |-> [i \in 1..ncols |-> <<"Die", i - 1>>],
     index |-> [r \in 1..Len(rows) |-> r],
     data |-> rows]

\* the dice of the game, as objects
DiceOf(g) == [i \in 1..Len(g.dice) |-> pool[g.dice[i]]]

\* the first die of the list whose roll raises, or 0
FirstRaising(dice) ==
    LET bad == {i \in 1..Len(dice) : \E o \in roll(dice[i]) : o.exc # OK}
    IN  IF bad = {} THEN 0 ELSE CHOOSE i \in bad : \A j \in bad : i <= j

\* the rows one pass of the inner loop can build when no roll raises
RollResults(dice) ==
    {row \in [1..Len(dice) -> Labels] :
        \A i \in 1..Len(dice) : [exc |-> OK, val |-> row[i]] \in roll(dice[i])}

\* the loops of Game.play: every way they can end, as the exception raised
\* (or OK) and the local list `results` at that moment
PlayLoops(dice, rolls) ==
    IF rolls <= 0 THEN {[exc |-> OK, results |-> <<>>]}
    ELSE IF FirstRaising(dice) # 0
    THEN {[exc |-> o.exc, results |-> <<>>] : o \in roll(dice[FirstRaising(dice)])}
    ELSE {[exc |-> OK, results |-> t] : t \in [1..rolls -> RollResults(dice)]}

\* (a play that stored whatever its loops had built when they ended)
play_results_partial(old, run, ncols) == DataFrame(run.results, ncols)

\* self.results after play: assigned once, after the loops
play_results(old, run, ncols) ==
    IF run.exc = OK THEN DataFrame(run.results, ncols) ELSE old

play ==
    /\ ~game.isNone
    /\ \E rolls \in -1..MaxRolls :
       \E run \in PlayLoops(DiceOf(game), rolls) :
        /\ game' = [game EXCEPT
                       !.results = play_results(game.results, run, Len(game.dice))]
        /\ played' = IF run.exc = OK THEN [isNone |-> FALSE, rolls |-> rolls]
                     ELSE played
        /\ replayed' = (replayed \/ (run.exc = OK /\ ~analyzer.isNone))
        /\ last' = [op |-> "play", arg |-> rolls, exc |-> run.exc, ret |-> None]
        /\ UNCHANGED <<pool, analyzer>>

\* (a show_results without the check for self.results being None)
show_results_unchecked(results, form) ==
    IF form = "wide" THEN [exc |-> OK, ret |-> results]
    ELSE IF form = "narrow" THEN [exc |-> AttributeErrorWide, ret |-> None]
    ELSE [exc |-> ValueErrorForm, ret |-> None]

\* Game.show_results: the exception raised (or OK) and the value returned
show_results_ret(results, form) ==
    IF results.isNone THEN [exc |-> ValueErrorNoResults, ret |-> None]
    ELSE IF form = "wide" THEN [exc |-> OK, ret |-> results]
    ELSE IF form = "narrow" THEN [exc |-> AttributeErrorWide, ret |-> None]
    ELSE [exc |-> ValueErrorForm, ret |-> None]

show_results ==
    /\ ~game.isNone
    /\ \E form \in Forms :
        LET r == show_results_ret(game.results, form) IN
        /\ last' = [op |-> "show_results", arg |-> form, exc |-> r.exc, ret |-> r.ret]
        /\ UNCHANGED <<pool, game, analyzer, played, replayed>>

\* -------------------------------------------------------------- Analyzer
\* a reference to the Game object, as self.game = game stores it
GameRef == [ref |-> TRUE, obj |-> None]

\* the object a stored value refers to
Deref(x) == IF x.ref THEN game ELSE x.obj

\* Analyzer.__init__: the exception raised, or OK; the argument is the Game
\* object or something that is no Game
Analyzer_init_exc(isGame, g) ==
    IF ~isGame THEN ValueErrorGame
    ELSE IF g.results.isNone THEN ValueErrorNoGameResults
    ELSE OK

\* (an Analyzer that kept a copy of the Game as it was at construction)
Analyzer_init_copy(g) == [isNone |-> FALSE, game |-> [ref |-> FALSE, obj |-> g]]

\* the object Analyzer.__init__ leaves behind
Analyzer_init_obj(g) == [isNone |-> FALSE, game |-> GameRef]

Analyzer_init ==
    \E isGame \in {b \in BOOLEAN : b => ~game.isNone} :
        LET exc == Analyzer_init_exc(isGame, game) IN
        /\ analyzer' = IF exc = OK THEN Analyzer_init_obj(game) ELSE analyzer
        /\ replayed' = IF exc = OK THEN FALSE ELSE replayed
        /\ last' = [op |-> "Analyzer", arg |-> isGame, exc |-> exc, ret |-> None]
        /\ UNCHANGED <<pool, game, played>>

\* self.game.results
GameResults(a) == Deref(a.game).results

\* whether a DataFrame has rows but no columns: what pandas' apply makes of
\* such a frame is not fixed by the source
NoColumns(res) == Len(res.columns) = 0 /\ Len(res.data) > 0

\* Series.nunique of one row
Nunique(row) == Cardinality({row[i] : i \in 1..Len(row)})

\* Analyzer.jackpot: sum(results.nunique(axis=1) == 1)
jackpot_ret(res) == Cardinality({r \in 1..Len(res.data) : Nunique(res.data[r]) = 1})

jackpot ==
    /\ ~analyzer.isNone
    /\ last' = [op |-> "jackpot", arg |-> None, exc |-> OK,
                ret |-> jackpot_ret(GameResults(analyzer))]
    /\ UNCHANGED <<pool, game, analyzer, played, replayed>>

\* sorted(row)
RECURSIVE Sorted(_)
Sorted(row) ==
    IF Len(row) = 0 THEN <<>>
    ELSE LET m == CHOOSE i \in 1..Len(row) : \A j \in 1..Len(row) : row[i] <= row[j]
         IN  <<row[m]>> \o Sorted([k \in 1..(Len(row) - 1) |->
                                       IF k < m THEN row[k] ELSE row[k + 1]])

\* Series.value_counts: each distinct value with the number of its entries
ValueCounts(series) ==
    [t \in {series[r] : r \in 1..Len(series)} |->
        Cardinality({r \in 1..Len(series) : series[r] = t})]

\* the 'Count' frames combo_counts and permute_counts can return
CountsFrames(res, series) ==
    {[exc |-> OK, ret |-> ValueCounts(series)]}
    \cup (IF NoColumns(res) THEN {[exc |-> PandasError, ret |-> None]} ELSE {})

\* Analyzer.combo_counts: the counts of tuple(sorted(row))
combo_counts_ret(res) ==
    CountsFrames(res, [r \in 1..Len(res.data) |-> Sorted(res.data[r])])

\* Analyzer.permute_counts: the counts of tuple(row)
permute_counts_ret(res) ==
    CountsFrames(res, [r \in 1..Len(res.data) |-> res.data[r]])

combo_counts ==
    /\ ~analyzer.isNone
    /\ \E r \in combo_counts_ret(GameResults(analyzer)) :
        last' = [op |-> "combo_counts", arg |-> None, exc |-> r.exc, ret |-> r.ret]
    /\ UNCHANGED <<pool, game, analyzer, played, replayed>>

permute_counts ==
    /\ ~analyzer.isNone
    /\ \E r \in permute_counts_ret(GameResults(analyzer)) :
        last' = [op |-> "permute_counts", arg |-> None, exc |-> r.exc, ret |-> r.ret]
    /\ UNCHANGED <<pool, game, analyzer, played, replayed>>

\* Series.unique: the distinct values in order of first appearance
RECURSIVE Unique(_)
Unique(s) ==
    IF Len(s) = 0 THEN <<>>
    ELSE LET front == Unique(SubSeq(s, 1, Len(s) - 1))
             x == s[Len(s)]
         IN  IF \E i \in 1..Len(front) : front[i] = x THEN front ELSE Append(front, x)

\* DataFrame.stack: the cells row by row
RECURSIVE Stack(_)
Stack(rows) ==
    IF Len(rows) = 0 THEN <<>>
    ELSE Stack(SubSeq(rows, 1, Len(rows) - 1)) \o rows[Len(rows)]

\* Analyzer.face_counts_per_roll: one row per roll, one column per face seen
\* anywhere in the table
face_counts_per_roll_ret(res) ==
    LET all_faces == Unique(Stack(res.data)) IN
    {[exc |-> OK,
      ret |-> [columns |-> all_faces,
               index |-> res.index,
               data |-> [r \in 1..Len(res.data) |->
                           [j \in 1..Len(all_faces) |->
                               Count(res.data[r], all_faces[j])]]]]}
    \cup (IF NoColumns(res) THEN {[exc |-> PandasError, ret |-> None]} ELSE {})

face_counts_per_roll ==
    /\ ~analyzer.isNone
    /\ \E r \in face_counts_per_roll_ret(GameResults(analyzer)) :
        last' = [op |-> "face_counts_per_roll", arg |-> None, exc |-> r.exc, ret |-> r.ret]
    /\ UNCHANGED <<pool, game, analyzer, played, replayed>>

Init ==
    /\ pool = <<>>
    /\ game = None
    /\ analyzer = None
    /\ played = None
    /\ replayed = FALSE
    /\ last = [op |-> "start", arg |-> None, exc |-> OK, ret |-> None]

Next == Die_init \/ change_weight \/ Game_init \/ play
    \/ show_results \/ Analyzer_init \/ jackpot \/ face_counts_per_roll
    \/ combo_counts \/ permute_counts

Spec == Init /\ [][Next]_vars

\* ---------------------------------------------------------------- claims
\* whether the elements of a sequence are pairwise distinct
Distinct(elems) ==
    \A i, j \in 1..Len(elems) : elems[i] = elems[j] => i = j

\* the sum of the counts of a 'Count' frame
RECURSIVE SumCounts(_)
SumCounts(f) ==
    IF DOMAIN f = {} THEN 0
    ELSE LET t == CHOOSE x \in DOMAIN f : TRUE
         IN  f[t] + SumCounts([x \in DOMAIN f \ {t} |-> f[x]])

\* the narrow form of a wide table: one entry per (Roll, Die) pair
Melt(res) ==
    [p \in {<<res.index[r], res.columns[d]>> :
                r \in 1..Len(res.index), d \in 1..Len(res.columns)} |->
        res.data[p[1]][p[2][2] + 1]]

\* C1: after a play that returned, the stored table has as many rows as the
\* rolls that play asked for and one column per die of the game.
C1_RowsAreTheRollsAsked ==
    ~played.isNone =>
        /\ Len(game.results.data) = played.rolls
        /\ Len(game.results.columns) = Len(game.dice)

\* C2: while no play of the Game has returned, show_results (whatever the
\* form) and Analyzer(game) raise the no-results error and return no table,
\* and no Analyzer exists.
C2_NoResultsBeforePlay ==
    played.isNone =>
        /\ last.op = "show_results" =>
              last.exc = ValueErrorNoResults /\ last.ret = None
        /\ (last.op = "Analyzer" /\ last.arg) => last.exc = ValueErrorNoGameResults
        /\ analyzer.isNone

\* a show_results('narrow') on a Game no play of which has returned
C2_Witness ==
    /\ played.isNone
    /\ last.op = "show_results"
    /\ last.arg = "narrow"

\* C3: after a play that returned, show_results('narrow') returns the table
\* keyed by (Roll, Die) whose entry at (r, d) is the wide table's cell there.
C3_NarrowIsTheWideTable ==
    (last.op = "show_results" /\ last.arg = "narrow" /\ ~played.isNone) =>
        /\ last.exc = OK
        /\ last.ret = Melt(game.results)

\* C4: Die(faces) returns a die with the faces in the given order and every
\* weight 1.0 when faces is an array of distinct labels, raises the
\* duplicate-label error when a label repeats, and the invalid-input error
\* when faces is no array.
C4_DieConstruction ==
    last.op = "Die" =>
        IF last.arg.kind = "list" THEN last.exc = TypeErrorFaces
        ELSE IF Distinct(last.arg.elems)
        THEN /\ last.exc = OK
             /\ last.ret.faces = last.arg.elems
             /\ last.ret.df = Ones(Len(last.arg.elems))
        ELSE last.exc = ValueErrorDistinct

\* C5: change_weight raises the unknown-label error for a face the die does
\* not have and the invalid-weight error for a weight that is not numeric or
\* is negative; every stored weight is non-negative and there is one weight
\* per face.
C5_WeightsStayValid ==
    /\ last.op = "change_weight" =>
        LET known == \E i \in 1..Len(last.arg.faces) :
                         last.arg.faces[i] = last.arg.face
            bad == ~last.arg.new_weight.numeric \/ last.arg.new_weight.v < 0
        IN  /\ ~known => last.exc = IndexErrorFace
            /\ (known /\ bad) => last.exc = TypeErrorWeight
    /\ \A d \in 1..Len(pool) :
        /\ Len(pool[d].df) = Len(pool[d].faces)
        /\ \A i \in 1..Len(pool[d].df) : pool[d].df[i] >= 0

\* C6: play(rolls) with rolls < 1 raises instead of returning.
C6_PlayRejectsRollsBelowOne ==
    (last.op = "play" /\ last.arg < 1) => last.exc # OK

\* C7: a change_weight that raises leaves every die as it was, and a play
\* that raises leaves the Game, its table or the absence of one, as it was.
C7_FailedCallsChangeNothing ==
    [][/\ (last'.op = "change_weight" /\ last'.exc # OK) => pool' = pool
       /\ (last'.op = "play" /\ last'.exc # OK) => game' = game]_vars

\* a play that raised at its second die, after the first had rolled, on a
\* Game that held a table with a row
C7_Witness ==
    /\ last.op = "play"
    /\ last.exc # OK
    /\ ~game.results.isNone
    /\ Len(game.results.data) > 0
    /\ FirstRaising(DiceOf(game)) = 2

\* C8: every analysis returns what its computation gives on the table the
\* Game holds when it is called.
C8_AnalysisReadsTheCurrentTable ==
    LET out == [exc |-> last.exc, ret |-> last.ret] IN
    /\ last.op = "jackpot" => last.ret = jackpot_ret(game.results)
    /\ last.op = "face_counts_per_roll" => out \in face_counts_per_roll_ret(game.results)
    /\ last.op = "combo_counts" => out \in combo_counts_ret(game.results)
    /\ last.op = "permute_counts" => out \in permute_counts_ret(game.results)

\* an analysis of a table with a row and two columns, stored by a play that
\* returned after the Analyzer was constructed
C8_Witness ==
    /\ last.op \in {"jackpot", "face_counts_per_roll", "combo_counts", "permute_counts"}
    /\ last.exc = OK
    /\ replayed
    /\ Len(game.results.data) > 0
    /\ Len(game.results.columns) = 2

\* C9: the counts combo_counts returns sum to the rolls the most recent play
\* asked for, and so do the counts permute_counts returns.
C9_CountsSumToTheRolls ==
    (last.op \in {"combo_counts", "permute_counts"} /\ last.exc = OK) =>
        SumCounts(last.ret) = played.rolls

\* C10 (stated for a Game with at least one die; with none, nunique is 0 in
\* every row and jackpot returns 0): jackpot returns the number of rows of the
\* current table in which every die shows the same label; with one die it is
\* the rolls the most recent play asked for.
C10_JackpotCount ==
    (last.op = "jackpot" /\ Len(game.dice) >= 1) =>
        /\ last.ret = Cardinality({r \in 1..Len(game.results.data) :
                          \A i, j \in 1..Len(game.dice) :
                              game.results.data[r][i] = game.results.data[r][j]})
        /\ Len(game.dice) = 1 => last.ret = played.rolls
====
